---- MODULE Spec2Model ----
(***************************************************************************)
(* Model of acl_parser.py: the IANA service table (iana_srv_parser,        *)
(* merge_dicts), the position-relative lookup (value_by_position), the     *)
(* rule parser (acl_rule_parser) and the main loop that threads the        *)
(* globals acl_name / acl_remark through consecutive rule parses.          *)
(*                                                                         *)
(* Python strings are TLA+ strings; characters are read with SubSeq, so    *)
(* the regular expressions, split, join and strip are computed character   *)
(* by character.  Python lists are sequences; list positions are kept      *)
(* 0-based in every definition that mirrors an index of the source.        *)
(* A raised exception is the name of its class in the field exc.           *)
(***************************************************************************)
EXTENDS Integers, Sequences, FiniteSets, TLC

VARIABLES
    pc,                 \* position of __main__: "init", "loop", "crashed", "done"
    csv_rows,           \* rows of the IANA csv file (input)
    acl_rules,          \* lines of input.txt still to be read, header first (input)
    iana_srv_mapping,   \* global: service name -> list of "<proto>_<port>"
    acl_name,           \* global: name from the header line
    acl_remark,         \* global: the current remark
    rule,               \* the line handed to the last acl_rule_parser call
    result,             \* how that call ended: "none", "row" or the exception
    parsed_rule,        \* the row it returned
    lookups,            \* the value_by_position calls it made, in order
    n_rows,             \* len(parsed_acl) - 1: rows appended after the header
    h_remark_line       \* history: the last remark line parsed ("" if none)

vars == << pc, csv_rows, acl_rules, iana_srv_mapping, acl_name, acl_remark,
           rule, result, parsed_rule, lookups, n_rows, h_remark_line >>

-----------------------------------------------------------------------------
(* Characters and the regular expressions of the source                    *)

DigitChars == {"0", "1", "2", "3", "4", "5", "6", "7", "8", "9"}

LowerChars == {"a", "b", "c", "d", "e", "f", "g", "h", "i", "j", "k", "l", "m",
               "n", "o", "p", "q", "r", "s", "t", "u", "v", "w", "x", "y", "z"}

CharAt(s, i) == SubSeq(s, i, i)

\* re.search('\d', s)
SearchDigit(s) == \E i \in 1..Len(s) : CharAt(s, i) \in DigitChars

\* re.search('^\d+$', s)
SearchAllDigits(s) == Len(s) > 0 /\ \A i \in 1..Len(s) : CharAt(s, i) \in DigitChars

\* re.search('\.', s)
SearchDot(s) == \E i \in 1..Len(s) : CharAt(s, i) = "."

\* re.search('[a-z]', s)
SearchLower(s) == \E i \in 1..Len(s) : CharAt(s, i) \in LowerChars

\* p in x, for strings
StrIn(p, x) == \E i \in 0..(Len(x) - Len(p)) : SubSeq(x, i + 1, i + Len(p)) = p

-----------------------------------------------------------------------------
(* str.split(), str.split(sep), str.join, str.strip                        *)

RECURSIVE SplitWs(_, _, _, _)
\* s.split(): the maximal runs of non-blank characters of s
SplitWs(s, i, cur, acc) ==
    IF i > Len(s) THEN (IF cur = "" THEN acc ELSE Append(acc, cur))
    ELSE IF CharAt(s, i) = " "
         THEN SplitWs(s, i + 1, "", IF cur = "" THEN acc ELSE Append(acc, cur))
         ELSE SplitWs(s, i + 1, cur \o CharAt(s, i), acc)

split(s) == SplitWs(s, 1, "", << >>)

RECURSIVE SplitSep(_, _, _, _, _)
\* s.split(sep) for a one-character sep: empty fields are kept
SplitSep(s, sep, i, cur, acc) ==
    IF i > Len(s) THEN Append(acc, cur)
    ELSE IF CharAt(s, i) = sep
         THEN SplitSep(s, sep, i + 1, "", Append(acc, cur))
         ELSE SplitSep(s, sep, i + 1, cur \o CharAt(s, i), acc)

split_on(s, sep) == SplitSep(s, sep, 1, "", << >>)

RECURSIVE join(_, _)
\* sep.join(list)
join(sep, list) ==
    IF list = << >> THEN ""
    ELSE IF Len(list) = 1 THEN list[1]
    ELSE list[1] \o sep \o join(sep, Tail(list))

RECURSIVE LStrip(_)
LStrip(s) == IF s # "" /\ CharAt(s, 1) = " " THEN LStrip(SubSeq(s, 2, Len(s))) ELSE s

RECURSIVE RStrip(_)
RStrip(s) == IF s # "" /\ CharAt(s, Len(s)) = " " THEN RStrip(SubSeq(s, 1, Len(s) - 1)) ELSE s

\* s.strip()
strip(s) == RStrip(LStrip(s))

\* list[k:] for k >= 0
SliceFrom(list, k) == SubSeq(list, k + 1, Len(list))

\* list(reversed(list))
reversed(list) == [i \in 1..Len(list) |-> list[Len(list) + 1 - i]]

-----------------------------------------------------------------------------
(* The service table                                                       *)

RECURSIVE merge_dicts(_, _)
\* merge_dicts(*dicts): each dict holds one key; d accumulates key -> list
merge_dicts(dicts, d) ==
    IF dicts = << >> THEN d
    ELSE LET key == dicts[1].key
             val == dicts[1].val
             d2  == IF key \in DOMAIN d
                    THEN [d EXCEPT ![key] = Append(@, val)]
                    ELSE [k \in (DOMAIN d) \cup {key} |->
                             IF k = key THEN << val >> ELSE d[k]]
         IN  merge_dicts(Tail(dicts), d2)

EmptyDict == [k \in {} |-> << >>]

RECURSIVE RowDicts(_)
\* the list iana_srv_mapping of one-entry dicts, before the merge
RowDicts(rows) ==
    IF rows = << >> THEN << >>
    ELSE LET row == rows[1]
         IN  (IF row.name # "" /\ row.port # ""
              THEN << [key |-> row.name, val |-> row.proto \o "_" \o row.port] >>
              ELSE << >>) \o RowDicts(Tail(rows))

iana_srv_parser(rows) == merge_dicts(RowDicts(rows), EmptyDict)

-----------------------------------------------------------------------------
(* value_by_position                                                       *)

RECURSIVE IndexFrom(_, _, _)
IndexFrom(list, x, i) ==
    IF i > Len(list) THEN -1
    ELSE IF list[i] = x THEN i - 1
    ELSE IndexFrom(list, x, i + 1)

\* list.index(x), 0-based; -1 stands for the ValueError of a missing x
list_index(list, x) == IndexFrom(list, x, 1)

\* input_list[i + index_offset] for the anchor's position i.  pos is the
\* position read; a negative pos no lower than -len wraps around as Python's
\* indexing does, any other pos outside the list raises IndexError, and a
\* missing anchor (i = -1) raises ValueError.
ValueAt(input_list, base_object, index_offset, i) ==
    IF i < 0
    THEN [exc |-> "ValueError", value |-> "", base |-> base_object,
          offset |-> index_offset, index |-> i, pos |-> i, len |-> Len(input_list)]
    ELSE IF i + index_offset >= Len(input_list) \/ i + index_offset < -Len(input_list)
    THEN [exc |-> "IndexError", value |-> "", base |-> base_object,
          offset |-> index_offset, index |-> i, pos |-> i + index_offset,
          len |-> Len(input_list)]
    ELSE [exc |-> "",
          value |-> input_list[(IF i + index_offset < 0
                                THEN i + index_offset + Len(input_list)
                                ELSE i + index_offset) + 1],
          base |-> base_object, offset |-> index_offset, index |-> i,
          pos |-> i + index_offset, len |-> Len(input_list)]

\* input_list[input_list.index(base_object) + index_offset]
value_by_position(input_list, base_object, index_offset) ==
    ValueAt(input_list, base_object, index_offset, list_index(input_list, base_object))

RECURSIVE FirstExc(_)
\* the exception of the first call of a list of calls that raised, "" if none
FirstExc(calls) ==
    IF calls = << >> THEN ""
    ELSE IF calls[1].exc # "" THEN calls[1].exc
    ELSE FirstExc(Tail(calls))

RECURSIVE Executed(_)
\* the calls actually made: those up to and including the first that raised
Executed(calls) ==
    IF calls = << >> THEN << >>
    ELSE IF calls[1].exc # "" THEN << calls[1] >>
    ELSE << calls[1] >> \o Executed(Tail(calls))

-----------------------------------------------------------------------------
(* acl_rule_parser                                                         *)

PadWidth == 16

\* acl_rule = acl_rule.split(); acl_rule += [''] * (16 - len(acl_rule))
Pad(tokens) ==
    tokens \o [i \in 1..(IF PadWidth > Len(tokens) THEN PadWidth - Len(tokens) ELSE 0) |-> ""]

Operators == {"eq", "gt", "lt", "range"}

\* The fields the source clause leaves behind, and the calls it made.
SourceFields(op, begin, end, dst_ip, dst_type, calls) ==
    [src_operator |-> op, src_port_begin |-> begin, src_port_end |-> end,
     dst_ip |-> dst_ip, dst_type |-> dst_type, has_operator |-> TRUE, calls |-> calls]

\* Lines 119-148: the token a after src_ip is the source operator; b1..b4
\* are the tokens 1..4 positions after it.  Repeated calls with the same
\* arguments return the same value and are listed once, in the order of
\* their first evaluation; `and` evaluates its right operand only when the
\* left one holds.
SourceOperator(a, b1, b2, b3, b4) ==
    IF a.value = "range" /\ SearchAllDigits(b1.value) /\ SearchAllDigits(b2.value)
    THEN IF b3.value = "host"
         THEN SourceFields(a.value, b1.value, b2.value, b4.value, "host",
                           << a, b1, b2, b3, b4 >>)
         ELSE SourceFields(a.value, b1.value, b2.value, b3.value, "network",
                           << a, b1, b2, b3 >>)
    ELSE IF b2.value = "host"
    THEN SourceFields(a.value, b1.value, "", b3.value, "host", << a, b1, b2, b3 >>)
    ELSE IF SearchDot(b2.value)
    THEN SourceFields(a.value, b1.value, "", b2.value, "network", << a, b1, b2 >>)
    ELSE IF b2.value = "any"
    THEN SourceFields(a.value, b1.value, "", IF SearchDot(b3.value) THEN "" ELSE "any",
                      "network", << a, b1, b2, b3 >>)
    ELSE SourceFields(a.value, b1.value, "", "", "network", << a, b1, b2 >>)

\* Lines 116-148, a being the token after src_ip
SourceAfter(acl_rule, a) ==
    IF SearchDigit(a.value)
    THEN [src_operator |-> "", src_port_begin |-> "", src_port_end |-> "",
          dst_ip |-> a.value, dst_type |-> "network",
          has_operator |-> FALSE, calls |-> << a >>]
    ELSE SourceOperator(a, value_by_position(acl_rule, a.value, 1),
                           value_by_position(acl_rule, a.value, 2),
                           value_by_position(acl_rule, a.value, 3),
                           value_by_position(acl_rule, a.value, 4))

\* The source clause of a tcp / udp rule
SourceClause(acl_rule, src_ip) ==
    SourceAfter(acl_rule, value_by_position(acl_rule, src_ip, 1))

\* A destination port: the lookup anchored at the operator in the forward list.
DstPortLookupForward(acl_rule, dst_operator, index_offset) ==
    value_by_position(acl_rule, dst_operator, -index_offset)

\* A destination port: value_by_position(reversed_acl_rule, dst_operator, offset)
DstPortLookup(acl_rule, dst_operator, index_offset) ==
    value_by_position(reversed(acl_rule), dst_operator, index_offset)

NoDestination ==
    [dst_operator |-> "", dst_port_begin |-> "", dst_port_end |-> "", calls |-> << >>]

\* Lines 151-163: c is the token after dst_ip, r1 and r2 the tokens read at
\* offsets -1 and -2 in the reversed list.
DestinationPorts(c, r1, r2) ==
    IF c.value # "" /\ c.value \in Operators
    THEN IF c.value = "range" /\ SearchAllDigits(r1.value)
         THEN [dst_operator |-> c.value, dst_port_begin |-> r1.value,
               dst_port_end |-> IF SearchAllDigits(r2.value) THEN r2.value ELSE "",
               calls |-> << c, r1, r2 >>]
         ELSE [dst_operator |-> c.value, dst_port_begin |-> r1.value,
               dst_port_end |-> "", calls |-> << c, r1 >>]
    ELSE [NoDestination EXCEPT !.calls = << c >>]

DestinationAfter(acl_rule, c) ==
    DestinationPorts(c, DstPortLookup(acl_rule, c.value, -1),
                        DstPortLookup(acl_rule, c.value, -2))

\* The destination operator and ports; the code reaches this only from the
\* branch that took a source operator.
DestinationClause(acl_rule, dst_ip) ==
    DestinationAfter(acl_rule, value_by_position(acl_rule, dst_ip, 1))

RECURSIVE LastNonEmpty(_, _)
\* next(x for x in reversed(acl_rule) if x is not ''); "" stands for StopIteration
LastNonEmpty(acl_rule, i) ==
    IF i = 0 THEN ""
    ELSE IF acl_rule[i] # "" THEN acl_rule[i]
    ELSE LastNonEmpty(acl_rule, i - 1)

\* [x for x in iana_srv_mapping[srv_identifier] if acl_proto in x]
Listed(name, acl_proto, mapping) ==
    SelectSeq(mapping[name], LAMBDA x : StrIn(acl_proto, x))

\* The last field of the split, whatever their number.
NumericPortionLast(fields) == [exc |-> "", value |-> fields[Len(fields)]]

\* ''.join(srv_identifier).split('_')[1], fields being the split
NumericPortion(fields) ==
    IF Len(fields) < 2 THEN [exc |-> "IndexError", value |-> ""]
    ELSE [exc |-> "", value |-> fields[2]]

\* Lines 176-182 for a name: the table lookup, the protocol filter, the
\* join and the split.
Resolve(name, acl_proto, mapping) ==
    IF ~SearchLower(name) THEN [exc |-> "", value |-> name]
    ELSE IF name \notin DOMAIN mapping THEN [exc |-> "KeyError", value |-> ""]
    ELSE NumericPortion(split_on(join("", Listed(name, acl_proto, mapping)), "_"))

\* One turn of the service mapping loop: the alias, then the lookup.
map_service(srv_identifier, acl_proto, mapping) ==
    Resolve(IF srv_identifier = "netbios-ss" THEN "netbios-ssn" ELSE srv_identifier,
            acl_proto, mapping)

\* port_mapping: the four port fields in the loop's order
port_mapping(ports, acl_proto, mapping) ==
    [i \in 1..4 |-> map_service(ports[i], acl_proto, mapping)]

EmptyRow ==
    [acl_name |-> "", acl_remark |-> "", seq_number |-> "", acl_action |-> "",
     acl_proto |-> "", src_type |-> "", src_ip |-> "", src_operator |-> "",
     src_port_begin |-> "", src_port_end |-> "", dst_type |-> "", dst_ip |-> "",
     dst_operator |-> "", dst_port_begin |-> "", dst_port_end |-> "", acl_state |-> ""]

WithDestination(acl_rule, s) ==
    [s |-> s,
     d |-> IF s.has_operator THEN DestinationClause(acl_rule, s.dst_ip) ELSE NoDestination]

\* The source clause followed, when it took an operator, by the destination
\* clause: the fields as they stand when the service mapping loop starts.
Clauses(acl_rule, src_ip) == WithDestination(acl_rule, SourceClause(acl_rule, src_ip))

FirstOf(x, y) == IF x # "" THEN x ELSE y

\* How the tcp / udp branch ends: c the clauses, m the port mapping.  The
\* first exception in program order is the one raised.
Outcome(acl_rule, c, m) ==
    [exc |-> FirstOf(FirstExc(c.s.calls \o c.d.calls),
                     FirstExc(<< m[1], m[2], m[3], m[4] >>)),
     calls |-> Executed(c.s.calls \o c.d.calls),
     src_operator |-> c.s.src_operator, src_port_begin |-> m[1].value,
     src_port_end |-> m[2].value, dst_type |-> c.s.dst_type, dst_ip |-> c.s.dst_ip,
     dst_operator |-> c.d.dst_operator, dst_port_begin |-> m[3].value,
     dst_port_end |-> m[4].value,
     acl_state |-> IF LastNonEmpty(acl_rule, Len(acl_rule)) = "established"
                   THEN "established" ELSE ""]

Mapped(acl_rule, c, acl_proto, mapping) ==
    Outcome(acl_rule, c,
            port_mapping(<< c.s.src_port_begin, c.s.src_port_end,
                            c.d.dst_port_begin, c.d.dst_port_end >>, acl_proto, mapping))

\* The tcp / udp branch: exc, the fields it sets, the calls it made.
TcpUdpRule(acl_rule, acl_proto, src_ip, mapping) ==
    Mapped(acl_rule, Clauses(acl_rule, src_ip), acl_proto, mapping)

\* The source address: acl_rule[4] after 'host', else acl_rule[3]
SourceIp(acl_rule) == IF acl_rule[4] = "host" THEN acl_rule[5] ELSE acl_rule[4]

\* The remark text taken one token too far to the right.
RemarkTextFrom3(acl_rule) == strip(join(" ", SliceFrom(acl_rule, 3)))

\* ' '.join(acl_rule[2:]).strip()
RemarkText(acl_rule) == strip(join(" ", SliceFrom(acl_rule, 2)))

\* Lines 99-102 and 191-195: a remark rule
RemarkRule(acl_rule, name, new_remark) ==
    [exc |-> "", acl_remark |-> new_remark, calls |-> << >>,
     parsed_rule |-> [EmptyRow EXCEPT !.acl_name = name, !.acl_remark = new_remark,
                          !.seq_number = acl_rule[1], !.acl_action = acl_rule[2]]]

\* Lines 104-185 and 191-195: a tcp / udp rule, t being how its branch ended
TcpUdpRow(acl_rule, name, remark, t) ==
    [exc |-> t.exc, acl_remark |-> remark, calls |-> t.calls,
     parsed_rule |->
         [acl_name |-> name, acl_remark |-> remark, seq_number |-> acl_rule[1],
          acl_action |-> acl_rule[2], acl_proto |-> acl_rule[3],
          src_type |-> IF acl_rule[4] = "host" THEN "host" ELSE "network",
          src_ip |-> SourceIp(acl_rule), src_operator |-> t.src_operator,
          src_port_begin |-> t.src_port_begin, src_port_end |-> t.src_port_end,
          dst_type |-> t.dst_type, dst_ip |-> t.dst_ip,
          dst_operator |-> t.dst_operator, dst_port_begin |-> t.dst_port_begin,
          dst_port_end |-> t.dst_port_end, acl_state |-> t.acl_state]]

\* Lines 104-111 and 187-195: a rule of any other protocol
OtherRule(acl_rule, name, remark) ==
    [exc |-> "", acl_remark |-> remark, calls |-> << >>,
     parsed_rule |->
         [EmptyRow EXCEPT !.acl_name = name, !.acl_remark = remark,
              !.seq_number = acl_rule[1], !.acl_action = acl_rule[2],
              !.acl_proto = acl_rule[3],
              !.src_type = IF acl_rule[4] = "host" THEN "host" ELSE "network",
              !.src_ip = acl_rule[4], !.dst_type = "network", !.dst_ip = acl_rule[5]]]

\* acl_rule_parser on the padded token list
ParseTokens(acl_rule, name, remark, mapping) ==
    IF acl_rule[2] = "remark"
    THEN RemarkRule(acl_rule, name, RemarkText(acl_rule))
    ELSE IF acl_rule[3] = "tcp" \/ acl_rule[3] = "udp"
    THEN TcpUdpRow(acl_rule, name, remark,
                   TcpUdpRule(acl_rule, acl_rule[3], SourceIp(acl_rule), mapping))
    ELSE OtherRule(acl_rule, name, remark)

\* acl_rule_parser(line) under the globals name, remark and mapping:
\* exc, the row returned, the value of the global acl_remark afterwards and
\* the value_by_position calls made.
acl_rule_parser(line, name, remark, mapping) ==
    ParseTokens(Pad(split(line)), name, remark, mapping)

-----------------------------------------------------------------------------
(* __main__                                                                *)

\* txt_to_list: every line of the file, stripped
txt_to_list(lines) == [i \in 1..Len(lines) |-> strip(lines[i])]

InitWith(tables, files) ==
    /\ pc = "init"
    /\ csv_rows \in tables
    /\ acl_rules \in files
    /\ iana_srv_mapping = EmptyDict
    /\ acl_name = ""
    /\ acl_remark = ""
    /\ rule = ""
    /\ result = "none"
    /\ parsed_rule = EmptyRow
    /\ lookups = << >>
    /\ n_rows = 0
    /\ h_remark_line = ""

\* Lines 199-214: build the service table, read the file, take the ACL
\* name from the header line, create the empty remark.
Setup ==
    /\ pc = "init"
    /\ iana_srv_mapping' = iana_srv_parser(csv_rows)
    /\ acl_name' = join(" ", SliceFrom(split(txt_to_list(acl_rules)[1]), 3))
    /\ acl_rules' = Tail(txt_to_list(acl_rules))
    /\ acl_remark' = ""
    /\ pc' = "loop"
    /\ UNCHANGED << csv_rows, rule, result, parsed_rule, lookups, n_rows, h_remark_line >>

\* What one turn of the loop leaves behind, r being what the call returned.
Appended(line, r) ==
    /\ rule' = line
    /\ lookups' = r.calls
    /\ result' = IF r.exc = "" THEN "row" ELSE r.exc
    /\ parsed_rule' = IF r.exc = "" THEN r.parsed_rule ELSE EmptyRow
    /\ acl_remark' = IF r.exc = "" THEN r.acl_remark ELSE acl_remark
    /\ n_rows' = IF r.exc = "" THEN n_rows + 1 ELSE n_rows
    /\ pc' = IF r.exc = "" THEN "loop" ELSE "crashed"

\* The last remark line handed to the parser
LastRemarkLine(line, toks) ==
    IF Len(toks) >= 2 /\ toks[2] = "remark" THEN line ELSE h_remark_line

\* Lines 217-218: one turn of the loop.  An exception of acl_rule_parser is
\* not caught anywhere: it ends the program before anything is written.
ParseRule ==
    /\ pc = "loop"
    /\ acl_rules # << >>
    /\ Appended(Head(acl_rules),
                acl_rule_parser(Head(acl_rules), acl_name, acl_remark, iana_srv_mapping))
    /\ h_remark_line' = LastRemarkLine(Head(acl_rules), split(Head(acl_rules)))
    /\ acl_rules' = Tail(acl_rules)
    /\ UNCHANGED << csv_rows, iana_srv_mapping, acl_name >>

\* Lines 220-223: the loop is over, the rows are written out.
WriteOut ==
    /\ pc = "loop"
    /\ acl_rules = << >>
    /\ pc' = "done"
    /\ UNCHANGED << csv_rows, acl_rules, iana_srv_mapping, acl_name, acl_remark,
                    rule, result, parsed_rule, lookups, n_rows, h_remark_line >>

Next == Setup \/ ParseRule \/ WriteOut

-----------------------------------------------------------------------------
(* Inputs                                                                  *)

Cat(A, B) == {a \o b : a \in A, b \in B}

SeqsUpTo(S, n) == UNION {[1..k -> S] : k \in 0..n}

Row(name, proto, port) == [name |-> name, proto |-> proto, port |-> port]

Header == "ip access-list extended TESTACL"

\* A small service table: www is a tcp service, https one of tcp and udp.
BaseTable == << Row("www", "tcp", "80"), Row("https", "tcp", "443"),
                Row("https", "udp", "443") >>

\* ---- rule shapes: sequence, action, protocol, source, source ports,
\* ---- destination, destination ports, trailing keyword
Actions == {" permit", " deny"}
Protos == {" tcp", " udp", " ip"}
SrcForms == {" any", " 10.1.1.1", " host 10.1.1.1"}
SrcPortForms == {"", " eq 80", " eq www", " range 20 21", " range 20"}
DstForms == {"", " any", " 10.1.1.1", " 10.2.2.2", " host 10.2.2.2"}
DstPortForms == {"", " eq 80", " eq www", " gt 1023", " range 30 31",
                 " range www https", " range 30"}
TailForms == {"", " established", " log"}

ShapeLines ==
    Cat(Cat(Cat(Cat(Cat(Cat(Cat({"10"}, Actions), Protos), SrcForms), SrcPortForms),
                DstForms), DstPortForms), TailForms)

\* One rule per file: the parser as a function of its input line.
SpecParseInit == InitWith({BaseTable}, {<< Header, l >> : l \in ShapeLines})

SpecParse == SpecParseInit /\ [][Next]_vars

\* ---- whole runs: up to MaxRules lines after the header
MaxRules == 3

RemarkSeqs == {"30"}
RemarkTexts == {"", "allow web traffic", "block telnet", "block  telnet  now"}

\* the line of a remark rule with the given text
RemarkLine(seq, text) == IF text = "" THEN seq \o " remark" ELSE seq \o " remark " \o text

RemarkLines == {RemarkLine(q, t) : q \in RemarkSeqs, t \in RemarkTexts}

RunLines ==
    RemarkLines \cup
    { "10 permit tcp host 10.1.1.1 eq https any",
      "20 permit tcp any range 1024 65535 host 10.2.2.2 eq 80",
      "40 permit tcp any any eq www established",
      "60 deny ip any any",
      "70 permit tcp host 10.1.1.1 eq 80 any established",
      "80 permit udp host 10.1.1.1 eq www any" }

RunFiles == {<< Header >> \o f : f \in SeqsUpTo(RunLines, MaxRules)}

Init == InitWith({BaseTable}, RunFiles)

Spec == Init /\ [][Next]_vars

\* ---- long rules: a shape followed by up to MaxFill trailing keywords
MaxFill == 8

FillWords == << "ack", "fin", "psh", "rst", "syn", "urg" >>

RECURSIVE Fill(_)
Fill(k) == IF k = 0 THEN ""
           ELSE Fill(k - 1) \o " " \o FillWords[((k - 1) % Len(FillWords)) + 1]

PadLines ==
    Cat(Cat(Cat(Cat(Cat(Cat({"10 permit tcp", "10 permit ip"}, SrcForms),
                            {"", " eq 80", " range 20 21"}),
                        DstForms \ {""}), {"", " eq 80", " range 30 31"}),
            {"", " established"}), {Fill(k) : k \in 0..MaxFill})

SpecPadInit == InitWith({BaseTable}, {<< Header, l >> : l \in PadLines})

SpecPad == SpecPadInit /\ [][Next]_vars

\* ---- service tables: up to MaxRows csv rows, then one rule that names a service
MaxRows == 2

CsvRows ==
    {Row(n, p, q) : n \in {"www", "netbios-ssn"}, p \in {"tcp", "udp", "sctp"},
                    q \in {"80", "139"}}
    \cup {Row("", "tcp", "7"), Row("www", "tcp", "")}

SrvLines ==
    { "10 permit tcp host 10.1.1.1 eq www any",
      "10 permit udp host 10.1.1.1 eq 53 host 10.2.2.2 eq www",
      "10 permit tcp host 10.1.1.1 range 20 21 any range www 8080",
      "10 permit udp host 10.1.1.1 eq netbios-ss any",
      "10 permit tcp host 10.1.1.1 eq 80 10.2.2.2" }

SpecSrvInit == InitWith(SeqsUpTo(CsvRows, MaxRows), {<< Header, l >> : l \in SrvLines})

SpecSrv == SpecSrvInit /\ [][Next]_vars

-----------------------------------------------------------------------------
(* Properties.  They speak about the last call of acl_rule_parser: rule is *)
(* its input line, result how it ended, parsed_rule the row returned.      *)
(* Where a property needs to know what a rule says (where its destination  *)
(* address stands, whether it has a port clause) it reads the rule by the  *)
(* grammar of the ACL syntax, position by position, not through the        *)
(* parser's anchors.                                                       *)

Parsed == result # "none"

ReturnedRow == result = "row"

Toks == split(rule)

\* the token at 0-based position i of the rule, "" past its end
Tok(i) == IF i >= 0 /\ i < Len(Toks) THEN Toks[i + 1] ELSE ""

IsPermitDeny == Tok(1) \in {"permit", "deny"}

IsTcpUdp == IsPermitDeny /\ Tok(2) \in {"tcp", "udp"}

RefSrcPos == IF Tok(3) = "host" THEN 4 ELSE 3

RefHasSrcPorts == Tok(RefSrcPos + 1) \in Operators

RefSrcRange2 ==
    /\ Tok(RefSrcPos + 1) = "range"
    /\ SearchAllDigits(Tok(RefSrcPos + 2))
    /\ SearchAllDigits(Tok(RefSrcPos + 3))

RefSrcPortLen == IF RefSrcRange2 THEN 3 ELSE IF RefHasSrcPorts THEN 2 ELSE 0

RefDstStart == RefSrcPos + 1 + RefSrcPortLen

RefDstPos == IF Tok(RefDstStart) = "host" THEN RefDstStart + 1 ELSE RefDstStart

\* the rule names a destination address
RefHasDst == Tok(RefDstPos) = "any" \/ SearchDot(Tok(RefDstPos))

RefDstOpPos == RefDstPos + 1

RefHasDstPorts == RefHasDst /\ Tok(RefDstOpPos) \in Operators

Keywords == {"", "established", "log", "any", "host"} \cup Operators
            \cup {FillWords[i] : i \in DOMAIN FillWords}

\* a token that can stand for a port: a number or a service name
RefIsPort(t) == SearchAllDigits(t) \/ (SearchLower(t) /\ t \notin Keywords /\ ~SearchDot(t))

LastTok == IF Toks = << >> THEN "" ELSE Toks[Len(Toks)]

\* the text the last remark line parsed was built from
HRemarkInput ==
    IF h_remark_line = "" THEN ""
    ELSE CHOOSE t \in RemarkTexts : \E q \in RemarkSeqs : h_remark_line = RemarkLine(q, t)

\* the text of the last remark line parsed: its words, one blank between them
HRemarkText == join(" ", split(HRemarkInput))

\* the csv rows that record service name n under protocol p with a port
RowsFor(n, p) ==
    {i \in DOMAIN csv_rows :
        csv_rows[i].name = n /\ csv_rows[i].proto = p /\ csv_rows[i].port # ""}

\* the four port fields of the last rule as the mapping loop receives them
PortFields ==
    LET acl_rule == Pad(split(rule))
        c == Clauses(acl_rule, SourceIp(acl_rule))
    IN  << c.s.src_port_begin, c.s.src_port_end, c.d.dst_port_begin, c.d.dst_port_end >>

Alias(t) == IF t = "netbios-ss" THEN "netbios-ssn" ELSE t

\* C1: after any sequence of rule parses the global remark is the text of
\* the most recent remark line parsed ("" if none), so a permit / deny parse
\* leaves it alone, and every row returned for a permit / deny rule carries
\* that text as acl_remark.
C1_RemarkSticky ==
    pc # "init" =>
        /\ acl_remark = HRemarkText
        /\ (ReturnedRow /\ parsed_rule.acl_action # "remark"
               => parsed_rule.acl_remark = HRemarkText)

\* C1 witness: a permit row, the third row of the run, carries a remark set earlier.
C1_Witness ==
    /\ ReturnedRow
    /\ parsed_rule.acl_action = "permit"
    /\ n_rows = 3
    /\ h_remark_line = "30 remark allow web traffic"
    /\ parsed_rule.acl_remark = "allow web traffic"

\* C2: for a rule of fewer than 16 tokens every value_by_position call reads
\* a position inside the 16-position padded list and none raises IndexError.
C2_LookupsInRange ==
    Len(Toks) < PadWidth =>
        \A i \in DOMAIN lookups :
            /\ lookups[i].exc # "IndexError"
            /\ lookups[i].exc = "" => lookups[i].pos \in 0..(PadWidth - 1)

\* C3: every row returned for a tcp / udp rule has src_operator among
\* "", eq, gt, lt, range.
C3_SrcOperatorEnum ==
    ReturnedRow /\ IsTcpUdp => parsed_rule.src_operator \in ({""} \cup Operators)

\* the rule (with its numeric sequence number) has a source range with two
\* numeric bounds, a destination address and a destination range, and no
\* other `range`
RefTwoRanges ==
    /\ IsTcpUdp
    /\ SearchAllDigits(Tok(0))
    /\ RefSrcRange2
    /\ RefHasDst
    /\ Tok(RefDstOpPos) = "range"
    /\ \A i \in 0..(Len(Toks) - 1) : Tok(i) = "range" => i \in {RefSrcPos + 1, RefDstOpPos}

\* C4 as stated: with two `range` keywords dst_operator is range and
\* dst_port_begin / dst_port_end are the two tokens after the last `range`
\* (taken here only when both of them can stand for a port).
C4_TwoRangesAsStated ==
    (ReturnedRow /\ RefTwoRanges /\ RefIsPort(Tok(RefDstOpPos + 1))
        /\ RefIsPort(Tok(RefDstOpPos + 2)))
    => /\ parsed_rule.dst_operator = "range"
       /\ parsed_rule.dst_port_begin = Tok(RefDstOpPos + 1)
       /\ parsed_rule.dst_port_end = Tok(RefDstOpPos + 2)

\* C4 amended: with two `range` keywords dst_operator is range; when the
\* two tokens after the last `range` are both purely numeric they are
\* dst_port_begin and dst_port_end, the source range's bounds staying in
\* src_port_begin / src_port_end; otherwise dst_port_end is empty.
C4_TwoRangesAmended ==
    (ReturnedRow /\ RefTwoRanges)
    => /\ parsed_rule.dst_operator = "range"
       /\ parsed_rule.src_port_begin = Tok(RefSrcPos + 2)
       /\ parsed_rule.src_port_end = Tok(RefSrcPos + 3)
       /\ IF SearchAllDigits(Tok(RefDstOpPos + 1)) /\ SearchAllDigits(Tok(RefDstOpPos + 2))
          THEN /\ parsed_rule.dst_port_begin = Tok(RefDstOpPos + 1)
               /\ parsed_rule.dst_port_end = Tok(RefDstOpPos + 2)
          ELSE parsed_rule.dst_port_end = ""

\* C4 witness: a row for "... range 20 21 <dst> range 30 31".
C4_Witness ==
    /\ ReturnedRow
    /\ RefTwoRanges
    /\ parsed_rule.src_port_begin = "20"
    /\ parsed_rule.src_port_end = "21"
    /\ parsed_rule.dst_port_begin = "30"
    /\ parsed_rule.dst_port_end = "31"

\* C5: a tcp / udp rule whose last token is `established` returns a row with
\* acl_state = established, any other returns acl_state = ""; the rule
\* "40 permit tcp any any eq www established" parsed after
\* "30 remark allow web traffic" returns a row with that remark and
\* acl_state = established.
C5_Established ==
    /\ (Parsed /\ IsTcpUdp /\ LastTok = "established")
           => (ReturnedRow /\ parsed_rule.acl_state = "established")
    /\ (ReturnedRow /\ IsTcpUdp /\ LastTok # "established")
           => parsed_rule.acl_state = ""
    /\ (Parsed /\ rule = "40 permit tcp any any eq www established"
               /\ h_remark_line = "30 remark allow web traffic")
           => /\ ReturnedRow
              /\ parsed_rule.acl_remark = "allow web traffic"
              /\ parsed_rule.acl_state = "established"

\* C6: when the source (destination) port of a tcp / udp rule is a service
\* name that the csv rows record under the rule's protocol, all with the
\* same port, the parse returns a row whose src_port_begin (dst_port_begin)
\* is that port, whatever other rows the table was built from.
C6_RoundTrip ==
    (Parsed /\ IsTcpUdp) =>
        /\ \A i \in RowsFor(Tok(RefSrcPos + 2), Tok(2)) :
               (/\ Tok(RefSrcPos + 1) = "eq"
                /\ ~RefHasDstPorts
                /\ \A j \in RowsFor(Tok(RefSrcPos + 2), Tok(2)) :
                       csv_rows[j].port = csv_rows[i].port)
               => (ReturnedRow /\ parsed_rule.src_port_begin = csv_rows[i].port)
        /\ \A i \in RowsFor(Tok(RefDstOpPos + 1), Tok(2)) :
               (/\ Tok(RefSrcPos + 1) = "eq"
                /\ SearchAllDigits(Tok(RefSrcPos + 2))
                /\ RefHasDstPorts
                /\ Tok(RefDstOpPos) = "eq"
                /\ \A j \in RowsFor(Tok(RefDstOpPos + 1), Tok(2)) :
                       csv_rows[j].port = csv_rows[i].port)
               => (ReturnedRow /\ parsed_rule.dst_port_begin = csv_rows[i].port)

\* C7: when a port field of a tcp / udp rule, as the service mapping loop
\* receives it, holds a service name (a token with a letter a-z, netbios-ss
\* standing for netbios-ssn) that no csv row records with a port under the
\* rule's protocol, the parse ends in an error and returns no row.
C7_UnresolvedRaises ==
    (Parsed /\ IsTcpUdp) =>
        \A k \in 1..4 :
            (SearchLower(Alias(PortFields[k])) /\ RowsFor(Alias(PortFields[k]), Tok(2)) = {})
            => (~ReturnedRow /\ result \in {"KeyError", "IndexError"} /\ pc = "crashed")

\* C7 witness: www is recorded, but only under other protocols than the rule's.
C7_Witness ==
    /\ rule = "10 permit tcp host 10.1.1.1 eq www any"
    /\ csv_rows = << Row("www", "udp", "80"), Row("www", "sctp", "80") >>
    /\ result = "IndexError"
    /\ lookups # << >>
    /\ \A i \in DOMAIN lookups : lookups[i].exc = ""

\* C8: when the token after the destination address of a tcp / udp rule is
\* eq, gt, lt or range (followed by a number), the row has that token as
\* dst_operator and the token after it as dst_port_begin, with or without a
\* source port clause.
C8_DstOperator ==
    (ReturnedRow /\ IsTcpUdp /\ RefHasDstPorts /\ SearchAllDigits(Tok(RefDstOpPos + 1)))
    => /\ parsed_rule.dst_operator = Tok(RefDstOpPos)
       /\ parsed_rule.dst_port_begin = Tok(RefDstOpPos + 1)

\* C9: for a permit / deny rule of another protocol than tcp and udp, src_ip
\* is the source address (token 4, src_type host, after `host`; else token 3,
\* src_type network), dst_ip is the token after it, and the operator, port
\* and state fields are empty.
C9_OtherProtocol ==
    (ReturnedRow /\ IsPermitDeny /\ Tok(2) \notin {"tcp", "udp"})
    => /\ parsed_rule.src_ip = Tok(RefSrcPos)
       /\ parsed_rule.src_type = (IF Tok(3) = "host" THEN "host" ELSE "network")
       /\ parsed_rule.dst_ip = Tok(RefSrcPos + 1)
       /\ parsed_rule.src_operator = "" /\ parsed_rule.dst_operator = ""
       /\ parsed_rule.src_port_begin = "" /\ parsed_rule.src_port_end = ""
       /\ parsed_rule.dst_port_begin = "" /\ parsed_rule.dst_port_end = ""
       /\ parsed_rule.acl_state = ""

\* C10: a tcp / udp rule with a source port clause and no operator after its
\* destination address returns a row with dst_operator, dst_port_begin and
\* dst_port_end empty, also when the destination address equals the source's.
C10_NoDstPorts ==
    (ReturnedRow /\ IsTcpUdp /\ RefHasSrcPorts /\ RefHasDst
        /\ Tok(RefDstOpPos) \notin Operators)
    => /\ parsed_rule.dst_operator = ""
       /\ parsed_rule.dst_port_begin = ""
       /\ parsed_rule.dst_port_end = ""

====
